---- MODULE Spec2Model ----
(***************************************************************************)
(* SimpleImageModal (src/simple-image-modal.js): the transform state       *)
(* (scale, translateX/Y, isDragging, drag anchor) and the modal lifecycle  *)
(* (display / opacity / body overflow driven by open(), close() and the    *)
(* two setTimeout callbacks), and the document listeners that drive them   *)
(* (click on an image, Escape key) under options that updateOptions()      *)
(* may change after construction.                                          *)
(*                                                                         *)
(* Numbers.  scale is a JavaScript double that only ever takes the values  *)
(* 1, maxZoom and sums/differences with the double nearest to 0.1.  With   *)
(* U = 2^-52 and C = 450359962737049 (so that 2^52 = 10*C + 6) every such  *)
(* double is k*C*U + r*U for a small integer r; it is kept as the pair     *)
(* [k, r].  k is the value in tenths, r the accumulated rounding residue.  *)
(* The double 0.1 is exactly (C + 5/8)*U.  C is 1 modulo 4, which is what  *)
(* the round-to-nearest of FloatAddTenth needs.  Pointer coordinates       *)
(* (clientX, clientY) are integers, hence so are translateX, translateY,   *)
(* startX and startY.                                                      *)
(***************************************************************************)
EXTENDS Integers, Sequences, FiniteSets, TLC

\* ---------------------------------------------------------------- bounds
MaxCoord == 1       \* pointer coordinates range over 0..MaxCoord
MaxPan == 1         \* a mousemove is only taken while |translate| <= MaxPan
MaxTimers == 2      \* pending setTimeout callbacks (lifecycle specifications)
MaxSettling == 1    \* pending setTimeout callbacks (pointer specification)
MaxUps == 25        \* length of the counted run of zoom(+0.1) calls

Coords == 0..MaxCoord

\* ------------------------------------------------------------- doubles
Dbl(k, r) == [k |-> k, r |-> r]

\* n/2 as a double, n >= 1  (2^52 = 10*C + 6, so n/2 = 5n*C + 3n units)
Half(n) == Dbl(5 * n, 3 * n)

DOne == Half(2)

\* a < b, a <= b on doubles (residues are far smaller than C)
DLess(a, b) == (a.k < b.k) \/ (a.k = b.k /\ a.r < b.r)

DLeq(a, b) == a = b \/ DLess(a, b)

MathMax(a, b) == IF DLess(a, b) THEN b ELSE a

MathMin(a, b) == IF DLess(b, a) THEN b ELSE a

\* IEEE-754 round-to-nearest of  s + sgn * 0.1  (sgn is 1 or -1).
\* Exact sum: (k + sgn)*C + (8r + 5 sgn)/8 units.  The unit in the last
\* place is 1 unit in [1,2), 2 units in [2,4), 4 units in [4,8); a sum
\* below 1 is rounded on the [1,2) grid, which zoom() cannot tell from the
\* exact rounding because Math.max(1, .) follows.  No tie can occur.
FloatAddTenth(s, sgn) ==
    LET k2 == s.k + sgn
        t == 8 * s.r + 5 * sgn
        geq(kb, rb) == (k2 > kb) \/ (k2 = kb /\ t >= 8 * rb)
        u == IF geq(40, 24) THEN 4 ELSE IF geq(20, 12) THEN 2 ELSE 1
        y == u * ((t + 8 * k2 + 4 * u) \div (8 * u))
    IN  Dbl(k2, y - k2)

\* ------------------------------------------------------------- inputs
\* <img> elements of the page: src, alt and title attributes ("" = absent)
Photo == [src |-> "a.png", alt |-> "cat", title |-> ""]

Plain == [src |-> "b.png", alt |-> "", title |-> ""]

Images == { Photo, Plain }

\* further images of the page: a title and no alt; an alt and a title
Titled == [src |-> "c.png", alt |-> "", title |-> "dog"]

Labelled == [src |-> "d.png", alt |-> "fox", title |-> "a fox"]

PageImages == { Photo, Plain, Titled, Labelled }

NoImage == [src |-> "", alt |-> "", title |-> ""]

\* constructor options that the modelled code reads
DefaultAnimationDuration == 300

DefaultMaxZoom == Half(6)

\* maxZoom: 1.2, the double 5404319552844595 * 2^-52 = (12*C + 7) * 2^-52
OnePointTwo == Dbl(12, 7)

FadeInDelay == 10

\* selectors: the type selector 'img' and class selectors; excludeSelector
\* defaults to null, which isExcluded() tests for falsiness like ''
DefaultSelector == "img"

NullSelector == ""

SkipSelector == ".skip"

VARIABLES
    options,        \* this.options: selector, excludeSelector, animationDuration,
                    \* closeOnEsc, showCaption, enableZoom, maxZoom
    bound,          \* listeners registered by bindEvents(): [zoom, esc |-> BOOLEAN]
    currentImage,   \* this.currentImage
    scale, isDragging, startX, startY, translateX, translateY,
    modalAttached,  \* this.modal.parentNode is set (the surface is in the document)
    modalDisplay,   \* this.modal.style.display: "none" | "flex"
    modalOpacity,   \* this.modal.style.opacity: "0" | "1"
    bodyOverflow,   \* document.body.style.overflow: "" | "hidden"
    imgSrc,         \* this.modalImg.src
    imgCursor,      \* this.modalImg.style.cursor
    imgTransform,   \* this.modalImg.style.transform: translate(tx, ty) scale(s)
    captionText,    \* this.modalCaption.textContent
    captionDisplay, \* this.modalCaption.style.display: "" | "block" | "none"
    timers,         \* pending setTimeout callbacks, in scheduling order
    press,          \* environment: the pointer button, and the grab it started
    last,           \* the event, call or callback that ran last
    nUp,            \* number of zoom(+0.1) calls if nothing else has run, else -1
    lifecycle       \* the latest of the open() and close() calls: "none" | "open" | "close"

progVars ==
    << options, bound, currentImage, scale, isDragging, startX, startY,
       translateX, translateY, modalAttached, modalDisplay, modalOpacity,
       bodyOverflow, imgSrc, imgCursor, imgTransform, captionText,
       captionDisplay, timers >>

vars == << progVars, press, last, nUp, lifecycle >>

transformVars == << scale, isDragging, startX, startY, translateX, translateY >>

domVars ==
    << modalAttached, modalDisplay, modalOpacity, bodyOverflow, imgSrc, imgCursor,
       imgTransform, captionText, captionDisplay >>

\* ------------------------------------------------------- construction
\* the defaults of the constructor, for the options the modelled code reads
DefaultOptions ==
    [ selector |-> DefaultSelector, excludeSelector |-> NullSelector,
      animationDuration |-> DefaultAnimationDuration, closeOnEsc |-> TRUE,
      showCaption |-> TRUE, enableZoom |-> TRUE, maxZoom |-> DefaultMaxZoom ]

\* createModal() writes no transform: style.transform is still empty
NoTransform == [set |-> FALSE, tx |-> 0, ty |-> 0, s |-> DOne]

\* press: held  - a mousedown on the image has occurred, no mouseup since;
\*        grab  - one such mousedown was made at scale > 1;
\*        clean - no zoom or reset has run since the latest of those;
\*        ax, ay - px - translateX0 and py - translateY0 for its pointer
\*                 position (px, py) and the offsets at that time
NoPress == [held |-> FALSE, grab |-> FALSE, clean |-> FALSE, ax |-> 0, ay |-> 0]

\* constructor(options) followed by init(): createModal(), bindEvents()
Constructed(opts) ==
    /\ options = opts
    /\ bound = [zoom |-> opts.enableZoom, esc |-> opts.closeOnEsc]
    /\ currentImage = NoImage
    /\ scale = DOne
    /\ isDragging = FALSE
    /\ startX = 0
    /\ startY = 0
    /\ translateX = 0
    /\ translateY = 0
    /\ modalAttached = TRUE
    /\ modalDisplay = "none"
    /\ modalOpacity = "0"
    /\ bodyOverflow = ""
    /\ imgSrc = ""
    /\ imgCursor = IF opts.enableZoom THEN "grab" ELSE "pointer"
    /\ imgTransform = NoTransform
    /\ captionText = ""
    /\ captionDisplay = ""
    /\ timers = << >>
    /\ press = NoPress
    /\ last = "constructor"
    /\ nUp = 0
    /\ lifecycle = "none"

\* ------------------------------------------------------ transform engine
\* updateImageTransform(): the style.transform written for the new state
updateImageTransform(tx, ty, s) == [set |-> TRUE, tx |-> tx, ty |-> ty, s |-> s]

\* mutant of ClampedScale: the two clamps are applied in the other order
ClampedScaleMaxLast(s, sgn, maxZoom) ==
    MathMax(DOne, MathMin(maxZoom, FloatAddTenth(s, sgn)))

\* mutant of ClampedScale: the upper clamp Math.min(maxZoom, .) is missing
ClampedScaleNoMin(s, sgn, maxZoom) == MathMax(DOne, FloatAddTenth(s, sgn))

\* the clamp of zoom(): Math.min(maxZoom, Math.max(1, scale + delta))
ClampedScale(s, sgn, maxZoom) ==
    MathMin(maxZoom, MathMax(DOne, FloatAddTenth(s, sgn)))

\* mutant of zoom: the enableZoom test is missing
zoomAlways(sgn) ==
    LET s2 == ClampedScale(scale, sgn, options.maxZoom)
        tx2 == IF s2 = DOne THEN 0 ELSE translateX
        ty2 == IF s2 = DOne THEN 0 ELSE translateY
    IN  /\ scale' = s2
        /\ translateX' = tx2
        /\ translateY' = ty2
        /\ imgTransform' = updateImageTransform(tx2, ty2, s2)
        /\ UNCHANGED << isDragging, startX, startY >>

\* zoom(delta), delta = sgn * 0.1
zoom(sgn) ==
    IF ~options.enableZoom
    THEN UNCHANGED << transformVars, imgTransform >>
    ELSE LET s2 == ClampedScale(scale, sgn, options.maxZoom)
             tx2 == IF s2 = DOne THEN 0 ELSE translateX
             ty2 == IF s2 = DOne THEN 0 ELSE translateY
         IN  /\ scale' = s2
             /\ translateX' = tx2
             /\ translateY' = ty2
             /\ imgTransform' = updateImageTransform(tx2, ty2, s2)
             /\ UNCHANGED << isDragging, startX, startY >>

\* mutant of resetZoom: the pan offsets are kept
resetZoomKeepingPan ==
    /\ scale' = DOne
    /\ imgTransform' = updateImageTransform(translateX, translateY, DOne)
    /\ UNCHANGED << isDragging, startX, startY, translateX, translateY >>

resetZoom ==
    /\ scale' = DOne
    /\ translateX' = 0
    /\ translateY' = 0
    /\ imgTransform' = updateImageTransform(0, 0, DOne)
    /\ UNCHANGED << isDragging, startX, startY >>

\* wheel listener on modalImg: direction only
WheelDelta(deltaY) == IF deltaY > 0 THEN -1 ELSE 1

onWheel(deltaY) ==
    /\ zoom(WheelDelta(deltaY))
    /\ UNCHANGED << options, bound, modalAttached, currentImage, modalDisplay, modalOpacity,
                    bodyOverflow, imgSrc, imgCursor, captionText,
                    captionDisplay, timers >>

\* mutant of onMouseDown: the anchor ignores the current offset
onMouseDownAnchorAtPointer(x, y) ==
    /\ IF DLess(DOne, scale)
       THEN /\ isDragging' = TRUE
            /\ startX' = x
            /\ startY' = y
            /\ imgCursor' = "grabbing"
       ELSE UNCHANGED << isDragging, startX, startY, imgCursor >>
    /\ UNCHANGED << options, bound, modalAttached, currentImage, scale, translateX,
                    translateY, modalDisplay, modalOpacity, bodyOverflow,
                    imgSrc, imgTransform, captionText, captionDisplay, timers >>

\* mutant of onMouseDown: the scale > 1 test is missing
onMouseDownAtAnyScale(x, y) ==
    /\ isDragging' = TRUE
    /\ startX' = x - translateX
    /\ startY' = y - translateY
    /\ imgCursor' = "grabbing"
    /\ UNCHANGED << options, bound, modalAttached, currentImage, scale, translateX,
                    translateY, modalDisplay, modalOpacity, bodyOverflow,
                    imgSrc, imgTransform, captionText, captionDisplay, timers >>

\* mousedown listener on modalImg
onMouseDown(x, y) ==
    /\ IF DLess(DOne, scale)
       THEN /\ isDragging' = TRUE
            /\ startX' = x - translateX
            /\ startY' = y - translateY
            /\ imgCursor' = "grabbing"
       ELSE UNCHANGED << isDragging, startX, startY, imgCursor >>
    /\ UNCHANGED << options, bound, modalAttached, currentImage, scale, translateX,
                    translateY, modalDisplay, modalOpacity, bodyOverflow,
                    imgSrc, imgTransform, captionText, captionDisplay, timers >>

\* mutant of onMouseMove: the guard tests isDragging only, not scale > 1
onMouseMoveNoScaleGuard(x, y) ==
    /\ IF isDragging
       THEN /\ translateX' = x - startX
            /\ translateY' = y - startY
            /\ imgTransform' = updateImageTransform(x - startX, y - startY, scale)
       ELSE UNCHANGED << translateX, translateY, imgTransform >>
    /\ UNCHANGED << options, bound, modalAttached, currentImage, scale, isDragging, startX,
                    startY, modalDisplay, modalOpacity, bodyOverflow, imgSrc,
                    imgCursor, captionText, captionDisplay, timers >>

\* mousemove listener on document
onMouseMove(x, y) ==
    /\ IF isDragging /\ DLess(DOne, scale)
       THEN /\ translateX' = x - startX
            /\ translateY' = y - startY
            /\ imgTransform' = updateImageTransform(x - startX, y - startY, scale)
       ELSE UNCHANGED << translateX, translateY, imgTransform >>
    /\ UNCHANGED << options, bound, modalAttached, currentImage, scale, isDragging, startX,
                    startY, modalDisplay, modalOpacity, bodyOverflow, imgSrc,
                    imgCursor, captionText, captionDisplay, timers >>

\* mutant of onMouseUp: the drag flag is left set
onMouseUpKeepingDrag ==
    /\ imgCursor' = IF isDragging THEN "grab" ELSE imgCursor
    /\ UNCHANGED << options, bound, modalAttached, currentImage, scale, isDragging,
                    startX, startY, translateX, translateY, modalDisplay,
                    modalOpacity, bodyOverflow, imgSrc, imgTransform,
                    captionText, captionDisplay, timers >>

\* mouseup listener on document
onMouseUp ==
    /\ IF isDragging
       THEN /\ isDragging' = FALSE
            /\ imgCursor' = "grab"
       ELSE UNCHANGED << isDragging, imgCursor >>
    /\ UNCHANGED << options, bound, modalAttached, currentImage, scale, startX, startY,
                    translateX, translateY, modalDisplay, modalOpacity,
                    bodyOverflow, imgSrc, imgTransform, captionText,
                    captionDisplay, timers >>

\* dblclick listener on modalImg, and the public resetZoom()
onDblClick ==
    /\ resetZoom
    /\ UNCHANGED << options, bound, modalAttached, currentImage, modalDisplay, modalOpacity,
                    bodyOverflow, imgSrc, imgCursor, captionText,
                    captionDisplay, timers >>

\* ------------------------------------------------------------ lifecycle
isOpen == modalDisplay = "flex"

Timer(kind, delay) == [kind |-> kind, delay |-> delay]

\* img.getAttribute('alt') || img.getAttribute('title') || ''
CaptionOf(img) ==
    IF img.alt # "" THEN img.alt ELSE IF img.title # "" THEN img.title ELSE ""

\* mutant of open: the caption prefers the title to the alt
openTitleFirst(img) ==
    LET caption == IF img.title # "" THEN img.title ELSE img.alt
    IN  /\ currentImage' = img
        /\ imgSrc' = img.src
        /\ IF options.showCaption
           THEN /\ captionText' = caption
                /\ captionDisplay' = IF caption # "" THEN "block" ELSE "none"
           ELSE UNCHANGED << captionText, captionDisplay >>
        /\ modalDisplay' = "flex"
        /\ timers' = Append(timers, Timer("fadeIn", FadeInDelay))
        /\ bodyOverflow' = "hidden"
        /\ UNCHANGED << options, bound, modalAttached, transformVars,
                        modalOpacity, imgCursor, imgTransform >>

\* mutant of open: the fade-in restarts from a transparent surface
openFromTransparent(img) ==
    /\ currentImage' = img
    /\ imgSrc' = img.src
    /\ IF options.showCaption
       THEN /\ captionText' = CaptionOf(img)
            /\ captionDisplay' = IF CaptionOf(img) # "" THEN "block" ELSE "none"
       ELSE UNCHANGED << captionText, captionDisplay >>
    /\ modalDisplay' = "flex"
    /\ modalOpacity' = "0"
    /\ timers' = Append(timers, Timer("fadeIn", FadeInDelay))
    /\ bodyOverflow' = "hidden"
    /\ UNCHANGED << options, bound, modalAttached, transformVars,
                    imgCursor, imgTransform >>

\* mutant of open: it also resets the transform
openWithReset(img) ==
    /\ currentImage' = img
    /\ imgSrc' = img.src
    /\ IF options.showCaption
       THEN /\ captionText' = CaptionOf(img)
            /\ captionDisplay' = IF CaptionOf(img) # "" THEN "block" ELSE "none"
       ELSE UNCHANGED << captionText, captionDisplay >>
    /\ modalDisplay' = "flex"
    /\ timers' = Append(timers, Timer("fadeIn", FadeInDelay))
    /\ bodyOverflow' = "hidden"
    /\ resetZoom
    /\ UNCHANGED << options, bound, modalAttached, modalOpacity, imgCursor >>

open(img) ==
    /\ currentImage' = img
    /\ imgSrc' = img.src
    /\ IF options.showCaption
       THEN /\ captionText' = CaptionOf(img)
            /\ captionDisplay' = IF CaptionOf(img) # "" THEN "block" ELSE "none"
       ELSE UNCHANGED << captionText, captionDisplay >>
    /\ modalDisplay' = "flex"
    /\ timers' = Append(timers, Timer("fadeIn", FadeInDelay))
    /\ bodyOverflow' = "hidden"
    /\ UNCHANGED << options, bound, modalAttached, transformVars,
                    modalOpacity, imgCursor, imgTransform >>

\* elements a click can land on: <img> elements, each with its class list
Element(img, classes) == [img |-> img, classes |-> classes]

\* this.modalImg: created without alt, title or class; src is set by open()
modalImg == Element([src |-> imgSrc, alt |-> "", title |-> ""], {})

\* el.matches(selector) for an <img> el: the type selector 'img' or a class
Matches(el, selector) ==
    IF selector = DefaultSelector THEN TRUE ELSE selector \in el.classes

\* e.target.closest(selector) is the target itself or null (an <img> has no
\* <img> ancestor): TRUE when it is the target
Closest(el, selector) == Matches(el, selector)

\* mutant of isExcluded: the test of the selector is inverted
isExcludedInverted(el) ==
    IF options.excludeSelector = NullSelector
    THEN FALSE
    ELSE ~Matches(el, options.excludeSelector)

isExcluded(el) ==
    IF options.excludeSelector = NullSelector
    THEN FALSE
    ELSE Matches(el, options.excludeSelector)

\* the click listener on document calls open(img)
ClickOpens(el) == Closest(el, options.selector) /\ ~isExcluded(el)

\* click listener on document
onDocumentClick(el) ==
    IF ClickOpens(el) THEN open(el.img) ELSE UNCHANGED progVars

\* mutant of close: the surface is hidden at once instead of by the timer
closeHidingAtOnce ==
    /\ modalOpacity' = "0"
    /\ modalDisplay' = "none"
    /\ timers' = Append(timers, Timer("hide", options.animationDuration))
    /\ UNCHANGED << options, bound, modalAttached, currentImage, transformVars,
                    bodyOverflow, imgSrc, imgCursor, imgTransform, captionText,
                    captionDisplay >>

close ==
    /\ modalOpacity' = "0"
    /\ timers' = Append(timers, Timer("hide", options.animationDuration))
    /\ UNCHANGED << options, bound, modalAttached, currentImage, transformVars, modalDisplay,
                    bodyOverflow, imgSrc, imgCursor, imgTransform, captionText,
                    captionDisplay >>

\* the callback open() schedules
fadeInCallback ==
    /\ modalOpacity' = "1"
    /\ UNCHANGED << transformVars, imgTransform, modalDisplay, bodyOverflow >>

\* mutant of closeCallback: scrolling is not restored
closeCallbackKeepingOverflow ==
    /\ modalDisplay' = "none"
    /\ resetZoom
    /\ UNCHANGED << modalOpacity, bodyOverflow >>

\* the callback close() schedules
closeCallback ==
    /\ modalDisplay' = "none"
    /\ bodyOverflow' = ""
    /\ resetZoom
    /\ UNCHANGED modalOpacity

\* the keydown listener calls close(): it is registered by bindEvents()
\* only if closeOnEsc was set at construction
KeyCloses(key) == bound.esc /\ key = "Escape" /\ isOpen

\* keydown listener on document
onKeyDown(key) ==
    IF KeyCloses(key) THEN close ELSE UNCHANGED progVars

\* setTimeout: callbacks run in order of due time.  A callback scheduled
\* earlier with a delay that is not larger is due first.
Due(i) == \A j \in 1..(i - 1) : timers[j].delay > timers[i].delay

RemoveAt(q, i) == SubSeq(q, 1, i - 1) \o SubSeq(q, i + 1, Len(q))

runTimer(i) ==
    /\ i \in 1..Len(timers)
    /\ Due(i)
    /\ IF timers[i].kind = "fadeIn" THEN fadeInCallback ELSE closeCallback
    /\ timers' = RemoveAt(timers, i)
    /\ UNCHANGED << options, bound, modalAttached, currentImage, imgSrc, imgCursor,
                    captionText, captionDisplay >>

\* mutant of destroy: scrolling is not restored
destroyKeepingOverflow ==
    /\ modalAttached' = FALSE
    /\ UNCHANGED << options, bound, currentImage, transformVars, modalDisplay,
                    modalOpacity, bodyOverflow, imgSrc, imgCursor, imgTransform,
                    captionText, captionDisplay, timers >>

\* destroy(): detach the surface if it is attached, restore scrolling
destroy ==
    /\ modalAttached' = FALSE
    /\ bodyOverflow' = ""
    /\ UNCHANGED << options, bound, currentImage, transformVars, modalDisplay,
                    modalOpacity, imgSrc, imgCursor, imgTransform, captionText,
                    captionDisplay, timers >>

\* updateOptions(patch): shallow merge, last write wins per key
updateOptions(patch) ==
    /\ options' = [key \in DOMAIN options |->
                     IF key \in DOMAIN patch THEN patch[key] ELSE options[key]]
    /\ UNCHANGED << bound, currentImage, transformVars, domVars, timers >>

\* ------------------------------------------------- events and API calls
\* the image element takes pointer input only while the modal is in the
\* document and laid out
Rendered == modalAttached /\ modalDisplay = "flex"

\* a zoom or a reset happened during the current press
Touched == [press EXCEPT !.clean = FALSE]

WheelEvent(deltaY) ==
    /\ Rendered
    /\ bound.zoom
    /\ onWheel(deltaY)
    /\ press' = Touched
    /\ last' = "wheel"
    /\ nUp' = -1
    /\ UNCHANGED lifecycle

MouseDownEvent(x, y) ==
    /\ Rendered
    /\ IF bound.zoom THEN onMouseDown(x, y) ELSE UNCHANGED progVars
    /\ press' = IF DLess(DOne, scale)
                THEN [held |-> TRUE, grab |-> TRUE, clean |-> TRUE,
                      ax |-> x - translateX, ay |-> y - translateY]
                ELSE [press EXCEPT !.held = TRUE]
    /\ last' = "mousedown"
    /\ nUp' = -1
    /\ UNCHANGED lifecycle

InPanRange(d) == d \in (0 - MaxPan)..MaxPan

MouseMoveEvent(x, y) ==
    /\ (isDragging /\ DLess(DOne, scale))
          => (InPanRange(x - startX) /\ InPanRange(y - startY))
    /\ IF bound.zoom THEN onMouseMove(x, y) ELSE UNCHANGED progVars
    /\ UNCHANGED press
    /\ last' = "mousemove"
    /\ nUp' = -1
    /\ UNCHANGED lifecycle

MouseUpEvent ==
    /\ IF bound.zoom THEN onMouseUp ELSE UNCHANGED progVars
    /\ press' = NoPress
    /\ last' = "mouseup"
    /\ nUp' = -1
    /\ UNCHANGED lifecycle

DblClickEvent ==
    /\ Rendered
    /\ bound.zoom
    /\ onDblClick
    /\ press' = Touched
    /\ last' = "dblclick"
    /\ nUp' = -1
    /\ UNCHANGED lifecycle

ResetZoomCall ==
    /\ onDblClick
    /\ press' = Touched
    /\ last' = "resetZoom"
    /\ nUp' = -1
    /\ UNCHANGED lifecycle

\* open() and close() are called while fewer than cap callbacks are pending
OpenCall(cap, img) ==
    /\ Len(timers) < cap
    /\ open(img)
    /\ UNCHANGED press
    /\ last' = "open"
    /\ nUp' = -1
    /\ lifecycle' = "open"

CloseCall(cap) ==
    /\ Len(timers) < cap
    /\ close
    /\ UNCHANGED press
    /\ last' = "close"
    /\ nUp' = -1
    /\ lifecycle' = "close"

FadeInTimerFires ==
    \E i \in 1..Len(timers) :
        /\ timers[i].kind = "fadeIn"
        /\ runTimer(i)
        /\ UNCHANGED press
        /\ last' = "fadeInTimer"
        /\ nUp' = -1
        /\ UNCHANGED lifecycle

CloseTimerFires ==
    \E i \in 1..Len(timers) :
        /\ timers[i].kind = "hide"
        /\ runTimer(i)
        /\ press' = Touched
        /\ last' = "closeTimer"
        /\ nUp' = -1
        /\ UNCHANGED lifecycle

DestroyCall ==
    /\ destroy
    /\ UNCHANGED press
    /\ last' = "destroy"
    /\ nUp' = -1
    /\ UNCHANGED lifecycle

\* a click on an <img> of the page
DocumentClickEvent(cap, el) ==
    /\ ClickOpens(el) => Len(timers) < cap
    /\ onDocumentClick(el)
    /\ UNCHANGED press
    /\ last' = "click"
    /\ nUp' = -1
    /\ lifecycle' = IF ClickOpens(el) THEN "open" ELSE lifecycle

\* a click on modalImg, which is in the document while the modal is laid
\* out: the click listener on document receives it as well
ModalImgClickEvent(cap) ==
    /\ Rendered
    /\ ClickOpens(modalImg) => Len(timers) < cap
    /\ onDocumentClick(modalImg)
    /\ UNCHANGED press
    /\ last' = "modalImgClick"
    /\ nUp' = -1
    /\ lifecycle' = IF ClickOpens(modalImg) THEN "open" ELSE lifecycle

KeyDownEvent(cap, key) ==
    /\ KeyCloses(key) => Len(timers) < cap
    /\ onKeyDown(key)
    /\ UNCHANGED press
    /\ last' = "keydown"
    /\ nUp' = -1
    /\ lifecycle' = IF KeyCloses(key) THEN "close" ELSE lifecycle

OptionPatches == { [enableZoom |-> TRUE], [enableZoom |-> FALSE] }

UpdateOptionsCall(patch) ==
    /\ updateOptions(patch)
    /\ UNCHANGED press
    /\ last' = "updateOptions"
    /\ nUp' = -1
    /\ UNCHANGED lifecycle

\* ------------------------------------------------------- specifications
MaxZooms == { Half(2), OnePointTwo }

ConstructorOptions ==
    [ selector : {DefaultSelector}, excludeSelector : {NullSelector},
      animationDuration : {DefaultAnimationDuration}, closeOnEsc : {TRUE},
      showCaption : {TRUE}, enableZoom : BOOLEAN, maxZoom : MaxZooms ]

\* Spec: every pointer event and API call of the transform engine around
\* an open / close cycle of one image
Init == \E opts \in ConstructorOptions : Constructed(opts)

Next ==
    \/ \E deltaY \in {-100, 0, 100} : WheelEvent(deltaY)
    \/ \E x \in Coords, y \in Coords : MouseDownEvent(x, y)
    \/ \E x \in Coords, y \in Coords : MouseMoveEvent(x, y)
    \/ MouseUpEvent
    \/ DblClickEvent
    \/ ResetZoomCall
    \/ OpenCall(MaxSettling, Photo)
    \/ CloseCall(MaxSettling)
    \/ FadeInTimerFires
    \/ CloseTimerFires
    \/ \E patch \in OptionPatches : UpdateOptionsCall(patch)

Spec == Init /\ [][Next]_vars

\* LifeSpec: open / close / destroy racing the two timers, for either order
\* of the fade-in delay and animationDuration, with zooming in between
AnimationDurations == { 0, DefaultAnimationDuration }

LifeInit ==
    \E d \in AnimationDurations :
        Constructed([ DefaultOptions EXCEPT !.maxZoom = OnePointTwo,
                                            !.animationDuration = d ])

LifeNext ==
    \/ \E deltaY \in {-100, 100} : WheelEvent(deltaY)
    \/ \E img \in Images : OpenCall(MaxTimers, img)
    \/ CloseCall(MaxTimers)
    \/ FadeInTimerFires
    \/ CloseTimerFires
    \/ DestroyCall

LifeSpec == LifeInit /\ [][LifeNext]_vars

\* FairSpec: open / close racing the timers with zooming and dragging
\* (the pointer moves along the diagonal) in between; the event loop runs
\* every timer callback that is due
FairNext ==
    \/ \E deltaY \in {-100, 100} : WheelEvent(deltaY)
    \/ \E x \in Coords : MouseDownEvent(x, x)
    \/ \E x \in Coords : MouseMoveEvent(x, x)
    \/ OpenCall(MaxTimers, Photo)
    \/ CloseCall(MaxTimers)
    \/ FadeInTimerFires
    \/ CloseTimerFires

FairSpec ==
    /\ LifeInit
    /\ [][FairNext]_vars
    /\ WF_vars(FadeInTimerFires)
    /\ WF_vars(CloseTimerFires)

\* IdleCloseSpec: open() and zooming, where close() is only ever called on
\* a modal that is closed (isOpen() false)
RedundantCloseCall ==
    /\ ~isOpen
    /\ CloseCall(MaxTimers)

IdleCloseNext ==
    \/ \E deltaY \in {-100, 100} : WheelEvent(deltaY)
    \/ \E img \in Images : OpenCall(MaxTimers, img)
    \/ RedundantCloseCall
    \/ FadeInTimerFires
    \/ CloseTimerFires

IdleCloseSpec == LifeInit /\ [][IdleCloseNext]_vars

\* OptionSpec: wheel zoom, reset, open / close and the timers while
\* updateOptions() changes maxZoom, also to a value below 1
MaxZoomPatches ==
    { [maxZoom |-> Half(1)], [maxZoom |-> DOne], [maxZoom |-> OnePointTwo] }

OptionInit == Constructed([ DefaultOptions EXCEPT !.maxZoom = OnePointTwo ])

OptionNext ==
    \/ \E deltaY \in {-100, 100} : WheelEvent(deltaY)
    \/ ResetZoomCall
    \/ OpenCall(MaxSettling, Photo)
    \/ CloseCall(MaxSettling)
    \/ FadeInTimerFires
    \/ CloseTimerFires
    \/ \E patch \in MaxZoomPatches : UpdateOptionsCall(patch)

OptionSpec == OptionInit /\ [][OptionNext]_vars

\* PageSpec: clicks on the images of the page and on the modal's own image,
\* key presses, open() / close() and the timers, under options that
\* updateOptions() changes
PageElements ==
    { Element(img, classes) : img \in PageImages, classes \in { {}, {SkipSelector} } }

Keys == { "Escape", "Enter" }

PagePatches ==
    { [showCaption |-> TRUE], [showCaption |-> FALSE],
      [closeOnEsc |-> TRUE], [closeOnEsc |-> FALSE],
      [excludeSelector |-> NullSelector], [excludeSelector |-> SkipSelector] }

PageInit ==
    \E esc \in BOOLEAN, cap \in BOOLEAN, sel \in { NullSelector, SkipSelector } :
        Constructed([ DefaultOptions EXCEPT !.closeOnEsc = esc,
                                            !.showCaption = cap,
                                            !.excludeSelector = sel ])

PageNext ==
    \/ \E el \in PageElements : DocumentClickEvent(MaxSettling, el)
    \/ ModalImgClickEvent(MaxSettling)
    \/ \E key \in Keys : KeyDownEvent(MaxSettling, key)
    \/ \E img \in PageImages : OpenCall(MaxSettling, img)
    \/ CloseCall(MaxSettling)
    \/ FadeInTimerFires
    \/ CloseTimerFires
    \/ \E patch \in PagePatches : UpdateOptionsCall(patch)

PageSpec == PageInit /\ [][PageNext]_vars

TypeOK ==
    /\ isDragging \in BOOLEAN
    /\ modalDisplay \in {"none", "flex"}
    /\ modalOpacity \in {"0", "1"}
    /\ bodyOverflow \in {"", "hidden"}
    /\ Len(timers) <= MaxTimers + MaxSettling

\* zoom(delta) called on the freshly constructed object, nothing else
ZoomCall(sgn) ==
    /\ onWheel(IF sgn = 1 THEN -100 ELSE 100)
    /\ press' = Touched
    /\ nUp' = IF sgn = 1 /\ nUp \in 0..(MaxUps - 1) THEN nUp + 1 ELSE -1
    /\ UNCHANGED lifecycle
    /\ last' = "wheel"

ZoomIn == ZoomCall(1)

ZoomOut == ZoomCall(-1)

ZoomMaxZooms == { Half(2), Half(3), Half(4), DefaultMaxZoom, Half(8) }

ZoomInit ==
    \E mz \in ZoomMaxZooms :
        Constructed([ DefaultOptions EXCEPT !.maxZoom = mz ])

ZoomNext == ZoomIn \/ ZoomOut

ZoomSpec == ZoomInit /\ [][ZoomNext]_vars

\* ----------------------------------------------------------- properties

\* C1: with zoom enabled and a fixed maxZoom >= 1, after any sequence of
\* zoom(+0.1) / zoom(-0.1) calls from the constructed state, 1 <= scale <=
\* maxZoom; with maxZoom = 3, after 25 consecutive zoom(+0.1) calls scale
\* is exactly 3.
C1_ScaleWithinBounds ==
    /\ DLeq(DOne, scale)
    /\ DLeq(scale, options.maxZoom)
    /\ (options.maxZoom = Half(6) /\ nUp = 25) => scale = Half(6)

C1_Witness == options.maxZoom = Half(6) /\ nUp = 25 /\ scale = Half(6)

\* C2: in every reachable state, scale == 1 implies translateX == 0 and
\* translateY == 0, also when the scale drops to 1 or the close timer
\* resets the transform in the middle of a drag.
C2_IdentityAtBaseZoom == (scale = DOne) => (translateX = 0 /\ translateY = 0)

\* a drag is still flagged, its anchor would move the image, and scale is 1
C2_Witness ==
    /\ scale = DOne
    /\ isDragging
    /\ press.held
    /\ startX # 0
    /\ last = "mousemove"

\* C3 as stated: right after any open(image), whatever the state before,
\* scale == 1 and translateX == translateY == 0.
C3_OpenResetsTransform ==
    (last = "open") => (scale = DOne /\ translateX = 0 /\ translateY = 0)

\* C3 as amended: open(image) leaves scale, translateX and translateY as
\* they were; right after it they are identity if they were before it.
C3_OpenKeepsTransform ==
    [][(last' = "open") =>
         (scale' = scale /\ translateX' = translateX /\ translateY' = translateY)]_vars

\* open() has just run on a zoomed and panned image
C3_Witness == last = "open" /\ DLess(DOne, scale) /\ translateX # 0

\* C4: open(image) makes isOpen() true at once; isOpen() stays true in
\* every step that is not a close timer firing, and is false right after a
\* close timer has fired.
C4_OpenUntilCloseTimer ==
    [][/\ (last' = "open") => isOpen'
       /\ (isOpen /\ ~isOpen') => (last' = "closeTimer")
       /\ (last' = "closeTimer") => ~isOpen']_vars

\* opened, closed, and the close timer has fired
C4_Witness ==
    /\ last = "closeTimer"
    /\ ~isOpen
    /\ currentImage # NoImage
    /\ timers = << >>
    /\ modalOpacity = "0"

\* C6: while the surface is in the document and laid out, body scrolling
\* is suspended; while the surface is hidden, scrolling is restored.
C6_ScrollSuspendedWhileVisible ==
    /\ (modalAttached /\ isOpen) => bodyOverflow = "hidden"
    /\ ~isOpen => bodyOverflow = ""

\* the modal is still laid out while a close and a fade-in are both pending
C6_Witness ==
    /\ modalAttached
    /\ isOpen
    /\ bodyOverflow = "hidden"
    /\ last = "close"
    /\ Len(timers) = 2
    /\ timers[1].kind = "fadeIn"

\* C5: close() sets the opacity to 0 in the step it is called; every
\* close() is eventually followed by a close timer firing, and right after
\* a close timer has fired the surface is hidden, scrolling is restored,
\* scale == 1 and translateX == translateY == 0.
C5_CloseFadesThenHides ==
    /\ [][/\ (last' = "close") => (modalOpacity' = "0")
          /\ (last' = "closeTimer") =>
                /\ ~isOpen'
                /\ bodyOverflow' = ""
                /\ scale' = DOne
                /\ translateX' = 0
                /\ translateY' = 0]_vars
    /\ (last = "close") ~> (last = "closeTimer")

\* the close timer has fired on a modal that was zoomed and dragged
C5_Witness ==
    /\ last = "closeTimer"
    /\ ~isOpen
    /\ bodyOverflow = ""
    /\ scale = DOne
    /\ isDragging
    /\ startX # 0

\* C7 as stated: isDragging implies that a mousedown on the image has
\* occurred with no mouseup since and that scale > 1.
C7_DraggingOnlyWhileZoomed ==
    isDragging => (press.held /\ DLess(DOne, scale))

\* C7 as amended: isDragging implies that a mousedown on the image made at
\* scale > 1 has occurred with no mouseup since; the scale may be 1 by now.
C7_DraggingOnlyWhileHeld == isDragging => (press.held /\ press.grab)

\* the button is still held on a grab whose scale has been reset to 1
C7_Witness ==
    /\ isDragging
    /\ press.held
    /\ press.grab
    /\ scale = DOne
    /\ last \in {"wheel", "dblclick", "closeTimer"}

\* C8: after a mousedown at (px, py) made at scale > 1 with offsets
\* (translateX0, translateY0), and no zoom, reset or mouseup since, a
\* mousemove at (x, y) sets translateX to x - (px - translateX0) and
\* translateY to y - (py - translateY0).
C8_DragFollowsPointer ==
    [][(press.clean /\ last' = "mousemove") =>
         \A x \in Coords, y \in Coords :
            MouseMoveEvent(x, y)
               => (translateX' = x - press.ax /\ translateY' = y - press.ay)]_vars

\* a drag has moved an image that was already panned when it was grabbed
C8_Witness ==
    /\ last = "mousemove"
    /\ press.clean
    /\ isDragging
    /\ translateX # 0
    /\ translateY # 0
    /\ press.ax \notin Coords

\* C9: at scale == 1 a mousedown on the image and a mousemove leave scale,
\* translateX, translateY, isDragging and the drag anchor unchanged.
C9_NoPanAtBaseZoom ==
    [][(scale = DOne /\ last' \in {"mousedown", "mousemove"})
          => UNCHANGED << scale, translateX, translateY, isDragging,
                          startX, startY >>]_vars

\* a mousedown arrived at scale 1 while an earlier drag was still flagged
C9_Witness ==
    /\ last = "mousedown"
    /\ scale = DOne
    /\ isDragging
    /\ startY # 0

\* C10: while options.enableZoom is false, a wheel event leaves scale,
\* translateX and translateY unchanged, whatever the scale is.
C10_WheelIgnoredWhenDisabled ==
    [][(~options.enableZoom /\ last' = "wheel")
          => UNCHANGED << scale, translateX, translateY >>]_vars

\* a wheel event arrived on a zoomed, panned image after zoom was disabled
C10_Witness ==
    /\ last = "wheel"
    /\ ~options.enableZoom
    /\ DLess(DOne, scale)
    /\ translateX # 0

\* C11: with showCaption enabled, right after open(image) the caption text
\* is the image's alt if that is non-empty, else its title if that is
\* non-empty, else empty; the caption region is shown exactly when the text
\* is non-empty, whatever caption was there before.
C11_CaptionFromAltThenTitle ==
    [][(options.showCaption /\ last' = "open") =>
         /\ currentImage'.alt # "" => captionText' = currentImage'.alt
         /\ (currentImage'.alt = "" /\ currentImage'.title # "")
               => captionText' = currentImage'.title
         /\ (currentImage'.alt = "" /\ currentImage'.title = "")
               => captionText' = ""
         /\ captionDisplay' = "block" <=> captionText' # ""
         /\ captionDisplay' = "none" <=> captionText' = ""]_vars

\* an image without alt and title was opened on a modal that had faded in,
\* and its caption region is hidden
C11_Witness ==
    /\ last = "open"
    /\ options.showCaption
    /\ currentImage = Plain
    /\ captionText = ""
    /\ captionDisplay = "none"
    /\ lifecycle = "open"
    /\ modalOpacity = "1"

\* C12: a document click whose matched image also matches the configured
\* excludeSelector never invokes open(): the displayed image, visibility,
\* opacity, scroll state and pending timers are unchanged by it; with no
\* excludeSelector configured every click on a matched image opens it.
C12_ExcludedClickNeverOpens ==
    [][(last' = "click") =>
         \A el \in PageElements :
            (DocumentClickEvent(MaxSettling, el) /\ Matches(el, options.selector))
               => /\ (options.excludeSelector # NullSelector
                        /\ options.excludeSelector \in el.classes)
                       => UNCHANGED << currentImage, imgSrc, modalDisplay,
                                       modalOpacity, bodyOverflow, timers,
                                       captionText, captionDisplay >>
                  /\ (options.excludeSelector = NullSelector)
                       => /\ currentImage' = el.img
                          /\ imgSrc' = el.img.src
                          /\ isOpen'
                          /\ Len(timers') = Len(timers) + 1]_vars

\* an excluded image was clicked while another image was displayed: no
\* fade-in was scheduled and the displayed image is still there
C12_Witness ==
    /\ last = "click"
    /\ options.excludeSelector = SkipSelector
    /\ timers = << >>
    /\ isOpen
    /\ modalOpacity = "1"
    /\ currentImage = Titled

\* C13: right after destroy(), whatever the state before (closed,
\* opening, open, closing with a pending timer, or already destroyed), the
\* surface is not attached to the document and body scrolling is restored.
C13_DestroyDetachesAndRestores ==
    [][(last' = "destroy") => (~modalAttached' /\ bodyOverflow' = "")]_vars

\* destroy() ran on a modal that was closing with its timer still pending
C13_Witness ==
    /\ last = "destroy"
    /\ ~modalAttached
    /\ bodyOverflow = ""
    /\ isOpen
    /\ modalOpacity = "0"
    /\ lifecycle = "close"
    /\ \E i \in 1..Len(timers) : timers[i].kind = "hide"

\* C14: open(imageB) on a modal that is in the document, open and fully
\* faded in (isOpen(), opacity 1, no close timer pending) replaces the
\* displayed image and leaves the visibility, the opacity, the scroll
\* suspension and the transform as they were; the fade-in timer it
\* schedules leaves them so as well.
C14_ReopenSwapsImageOnly ==
    [][/\ ( /\ last' = "open"
            /\ modalAttached
            /\ isOpen
            /\ modalOpacity = "1"
            /\ \A i \in 1..Len(timers) : timers[i].kind # "hide" )
          => /\ imgSrc' = currentImage'.src
             /\ isOpen'
             /\ modalOpacity' = "1"
             /\ bodyOverflow = "hidden"
             /\ UNCHANGED << modalDisplay, modalOpacity, bodyOverflow,
                             modalAttached, scale, translateX, translateY >>
       /\ (last' = "fadeInTimer" /\ modalOpacity = "1")
          => UNCHANGED << modalDisplay, modalOpacity, bodyOverflow,
                          modalAttached, scale, translateX, translateY,
                          currentImage, imgSrc >>]_vars

\* a second image was opened on a zoomed, faded-in modal: the only pending
\* timer is the new fade-in, and no close timer has reset the zoom
C14_Witness ==
    /\ last = "open"
    /\ modalAttached
    /\ modalOpacity = "1"
    /\ isOpen
    /\ DLess(DOne, scale)
    /\ timers = << Timer("fadeIn", FadeInDelay) >>
    /\ currentImage = Plain

\* C15: close() called on a closed modal is a no-op in effect: when every
\* close() is such a call, neither the call nor the timer it schedules
\* changes isOpen(), the opacity, the scroll suspension, the scale or the
\* translation, so the state evolves as if close() had never been called,
\* also when open() is called before that timer fires.
C15_RedundantCloseIsNoOp ==
    [][(last' \in {"close", "closeTimer"})
          => UNCHANGED << modalDisplay, modalOpacity, bodyOverflow, scale,
                          translateX, translateY >>]_vars

\* C16 as stated: in every reachable state, under any interleaving of
\* wheel zoom, reset, open / close and updateOptions calls that change
\* maxZoom, 1 <= scale <= the currently configured maxZoom.
C16_ScaleWithinCurrentMaxZoom ==
    DLeq(DOne, scale) /\ DLeq(scale, options.maxZoom)

\* C16 as amended: right after a wheel zoom with zoom enabled, scale <= the
\* configured maxZoom, and 1 <= scale if that maxZoom is >= 1; right after
\* a reset or a close timer scale is 1; updateOptions leaves scale as it
\* is, whatever maxZoom it sets.
C16_ZoomClampsToCurrentMaxZoom ==
    [][/\ (last' = "wheel" /\ options.enableZoom)
          => /\ DLeq(scale', options'.maxZoom)
             /\ DLeq(DOne, options'.maxZoom) => DLeq(DOne, scale')
       /\ (last' \in {"resetZoom", "dblclick", "closeTimer"}) => scale' = DOne
       /\ (last' = "updateOptions") => scale' = scale]_vars

\* maxZoom was set below 1 and the next wheel zoom brought scale down to it
C16_Witness ==
    /\ last = "wheel"
    /\ options.maxZoom = Half(1)
    /\ scale = Half(1)
    /\ isOpen

\* C17: an Escape key press invokes close() exactly when closeOnEsc is
\* enabled in the options in force at the time of the key press (also
\* when updateOptions changed it after construction) and isOpen() is true;
\* otherwise the key press leaves the lifecycle state unchanged and
\* schedules no timer.
C17_EscapeFollowsCurrentOption ==
    [][(last' = "keydown") =>
         \A key \in Keys :
            KeyDownEvent(MaxSettling, key)
               => IF key = "Escape" /\ options.closeOnEsc /\ isOpen
                  THEN /\ modalOpacity' = "0"
                       /\ Len(timers') = Len(timers) + 1
                       /\ timers'[Len(timers')].kind = "hide"
                  ELSE UNCHANGED << modalDisplay, modalOpacity, bodyOverflow,
                                    timers >>]_vars

\* C18: a close timer never hides a modal that was opened after the
\* close() that scheduled it: while open(image) is the latest of the
\* open() / close() calls, the modal is laid out with scrolling suspended,
\* its opacity eventually is 1, and once 1 it stays 1 until the next
\* close().
C18_LatestOpenStaysVisible ==
    /\ [](lifecycle = "open" => (isOpen /\ bodyOverflow = "hidden"))
    /\ [][(lifecycle = "open" /\ lifecycle' = "open" /\ modalOpacity = "1")
            => modalOpacity' = "1"]_vars
    /\ (lifecycle = "open") ~> (lifecycle = "close" \/ modalOpacity = "1")

\* C19: whenever the caption region is shown while the modal is open, its
\* text is the caption (alt, else title) of the image that is displayed,
\* after any sequence of open() and updateOptions() calls, also when
\* showCaption is turned off between two opens.
C19_ShownCaptionIsOfDisplayedImage ==
    (isOpen /\ captionDisplay = "block")
       => \A img \in PageImages :
             (img.src = imgSrc) => captionText = CaptionOf(img)

\* C20: a click on the modal's own image element, which is in the document
\* and has no alt or title, never invokes open(): with the default
\* selector it schedules no fade-in and leaves the displayed image, the
\* caption text and the caption's visibility unchanged.
C20_ModalImageClickNeverOpens ==
    [][(last' = "modalImgClick")
          => UNCHANGED << imgSrc, captionText, captionDisplay, timers >>]_vars

====
